---- MODULE Spec2Model ----
(***************************************************************************)
(* lugo4py: the streaming session of one player (LugoClient, client.py)    *)
(* and the programs that run it: example/simple/main.py (one session, its  *)
(* main thread blocked in wait()) and example/rl/main.py with              *)
(* rl/helper_bots.py (several sessions on one ThreadPoolExecutor).         *)
(*                                                                         *)
(* The game server is the environment.  It broadcasts one sequence of      *)
(* snapshots (stream) to every joined player; each session's response      *)
(* iterator is a cursor (pos) into that sequence.  A connection can also   *)
(* end (StopIteration) or fail (grpc.RpcError) on its own.                 *)
(***************************************************************************)
EXTENDS Integers, Sequences, FiniteSets

\* ---------------------------------------------------------------- bounds
MaxTurn == 2
MaxSnapshots == 2
MaxStops == 2

\* The session of the program's own player (lugo_client) and the session of a
\* helper ("zombie") player of rl/helper_bots.py.
Main == "player"
Helper == "zombie"
Sessions == {Main, Helper}

\* ------------------------------------------------------------- constants
\* lugo.State values the receive loop tells apart; WAITING stands for every
\* phase the loop has no branch for.
States == {"GET_READY", "LISTENING", "OVER", "WAITING"}

\* Python's None, as a value of the shape of an OrderSet.
PyNone == [turn |-> -1, n |-> -1]

VARIABLES
    stream,         \* server: the snapshots broadcast so far, <<[state, turn]>>
    pos,            \* per session: snapshots taken from response_iterator
    pc,             \* per session: where _response_watcher (or its future) is
    orders,         \* per session: the local `orders` of the loop body
    play_finished,  \* per session: self._play_finished (threading.Event)
    play_routine,   \* per session: self._play_routine (None or the Future)
    max_workers,    \* the ThreadPoolExecutor's max_workers
    waiter,         \* per session: the caller of wait()
    stopped,        \* per session: what the calls of stop() did, in order
    stopPos,        \* per session: pos when _play_finished was first set by stop()
    joins,          \* per session: calls of on_join
    number,         \* per session: self.number, the jersey number
    raised,         \* per helper session: what newCustomHelperPlayer raised
    events          \* per session: handler calls, SendOrders calls, log lines

vars == <<stream, pos, pc, orders, play_finished, play_routine, max_workers, number, raised,
          waiter, stopped, stopPos, joins, events>>

\* ------------------------------------------------------------ pure parts
\* client.py 134-135: orders = server_pb2.OrderSet(); orders.turn = snapshot.turn
NewOrdersTurnOff(turn) == [turn |-> turn + 1, n |-> 0]
NewOrders(turn) == [turn |-> turn, n |-> 0]

\* What a turn handler can do with (orders, snapshot): raise, raise after it
\* added a directive (chaser_turn_handler, helper_bots.py 24-27), return None,
\* return the OrderSet it was given without directives (zombie_turn_handler
\* only sets debug_message), or return it with directives.
Outcomes == {"raise", "raise_late", "none", "empty", "filled"}

Raises(out) == out \in {"raise", "raise_late"}

\* helper_bots.py 38-41: the zombie handler returns order_set, no directive added.
ZombieOutcomes == {"empty"}

\* The handlers a session can run: Main plays a bot (play_as_bot / play with
\* any callback), the helpers play zombie_turn_handler.
HandlerOutcomes(s) == IF s = Main THEN Outcomes ELSE ZombieOutcomes

\* client.py 136-140: orders = processor(orders, snapshot), the except branch
\* keeping the OrderSet built before the call.
ProcessorResult(out, o) ==
    CASE out = "raise" -> o
      [] out = "raise_late" -> [o EXCEPT !.n = 1]
      [] out = "none" -> PyNone
      [] out = "empty" -> o
      [] OTHER -> [o EXCEPT !.n = 1]

\* client.py 136-140: where the loop is after the processor call; the
\* exception of a handler is caught and logged, the body goes on to line 142.
AfterHandlerUncaught(out) == IF Raises(out) THEN "failed" ELSE "send"
AfterHandler(out) == "send"

\* client.py 133: elif snapshot.state == lugo.State.LISTENING
IsListeningOrReady(state) == state \in {"LISTENING", "GET_READY"}
IsListening(state) == state = "LISTENING"

\* client.py 142: `if orders:`.  server_pb2.OrderSet is a protobuf message,
\* which defines neither __bool__ nor __len__: every instance is true, only
\* None is false.
TruthyAlways(o) == TRUE
Truthy(o) == o # PyNone

\* The snapshot the loop body holds: the last one taken from the iterator.
Snapshot(s) == stream[pos[s]]

\* Futures of the pool that occupy a worker thread.
Running == {s \in Sessions : pc[s] \in {"next", "got", "send"}}

\* A line of a session's history: what was called (the handler, the ready
\* handler, SendOrders) or logged ("noorders"), for which snapshot.
Event(kind, s, turn, out) ==
    [ev |-> kind, idx |-> pos[s], turn |-> turn, out |-> out]

\* --------------------------------------------------------------- initial
\* The jersey numbers of the sessions where nothing looks at them (play with a
\* callback of its own): the helpers fill the roster from the goalkeeper on,
\* the player has a number of the field.
Roster == [s \in Sessions |-> IF s = Helper THEN 1 ELSE 2]

\* client.py 25-36: the sessions as LugoClient.__init__ leaves them.
Constructed ==
    /\ stream = <<>>
    /\ pos = [s \in Sessions |-> 0]
    /\ pc = [s \in Sessions |-> "new"]
    /\ orders = [s \in Sessions |-> PyNone]
    /\ play_finished = [s \in Sessions |-> FALSE]
    /\ play_routine = [s \in Sessions |-> "None"]
    /\ waiter = [s \in Sessions |-> "away"]
    /\ stopped = [s \in Sessions |-> <<>>]
    /\ stopPos = [s \in Sessions |-> -1]
    /\ joins = [s \in Sessions |-> 0]
    /\ events = [s \in Sessions |-> <<>>]
    /\ raised = [s \in Sessions |-> "nothing"]

\* example/simple/main.py 58: ThreadPoolExecutor() has a worker for the one
\* receive loop submitted to it.
Init ==
    /\ Constructed
    /\ max_workers = Cardinality(Sessions)
    /\ number = Roster

\* example/rl/main.py 114: ThreadPoolExecutor(n), n whatever the caller
\* passes, as many as the sessions or fewer.
PoolInit ==
    /\ Constructed
    /\ max_workers \in 1..Cardinality(Sessions)
    /\ number = Roster

\* ---------------------------------------------------------------- server
\* The game server pushes the next snapshot of the match to every player.
\* Turn numbers never decrease.
LastTurn == IF stream = <<>> THEN 1 ELSE stream[Len(stream)].turn

ServerSend ==
    /\ Len(stream) < MaxSnapshots
    /\ \E st \in States, t \in LastTurn..MaxTurn :
          stream' = Append(stream, [state |-> st, turn |-> t])
    /\ UNCHANGED <<pos, pc, orders, play_finished, play_routine, max_workers, number, raised,
                   waiter, stopped, stopPos, joins, events>>

\* ----------------------------------------------------------------- start
\* client.py 53-108: play / play_as_bot -> _bot_start.  Either the channel is
\* not ready within 5 s and _bot_start raises, or the join request is made,
\* on_join runs and the receive loop is submitted to the executor.
PlayThroughTimeout(s) ==
    /\ pc[s] = "new"
    /\ joins' = [joins EXCEPT ![s] = @ + 1]
    /\ play_routine' = [play_routine EXCEPT ![s] = "pending"]
    /\ \/ pc' = [pc EXCEPT ![s] = "refused"]
       \/ pc' = [pc EXCEPT ![s] = "queued"]
    /\ UNCHANGED <<stream, pos, orders, play_finished, max_workers, number, raised,
                   waiter, stopped, stopPos, events>>

Play(s) ==
    /\ pc[s] = "new"
    /\ \/ /\ pc' = [pc EXCEPT ![s] = "refused"]
          /\ UNCHANGED <<play_routine, joins>>
       \/ /\ joins' = [joins EXCEPT ![s] = @ + 1]
          /\ play_routine' = [play_routine EXCEPT ![s] = "pending"]
          /\ pc' = [pc EXCEPT ![s] = "queued"]
    /\ UNCHANGED <<stream, pos, orders, play_finished, max_workers, number, raised, waiter,
                   stopped, stopPos, events>>

\* ThreadPoolExecutor: a pending future starts when a worker thread is free.
WatcherStartAlthoughCancelled(s) ==
    /\ pc[s] \in {"queued", "cancelled"}
    /\ Cardinality(Running) < max_workers
    /\ pc' = [pc EXCEPT ![s] = "next"]
    /\ play_routine' = [play_routine EXCEPT ![s] = "running"]
    /\ UNCHANGED <<stream, pos, orders, play_finished, max_workers, number, raised,
                   waiter, stopped, stopPos, joins, events>>

WatcherStart(s) ==
    /\ pc[s] = "queued"
    /\ Cardinality(Running) < max_workers
    /\ pc' = [pc EXCEPT ![s] = "next"]
    /\ play_routine' = [play_routine EXCEPT ![s] = "running"]
    /\ UNCHANGED <<stream, pos, orders, play_finished, max_workers, number, raised, waiter,
                   stopped, stopPos, joins, events>>

\* ---------------------------------------------------------- receive loop
\* client.py 150: the statement after the loop, reached by break and by the
\* iterator's end; then the function returns and the future is finished.
LoopExitNoSet(s) ==
    /\ pc' = [pc EXCEPT ![s] = "done"]
    /\ play_routine' = [play_routine EXCEPT ![s] = "finished"]
    /\ UNCHANGED play_finished

LoopExit(s) ==
    /\ play_finished' = [play_finished EXCEPT ![s] = TRUE]
    /\ pc' = [pc EXCEPT ![s] = "done"]
    /\ play_routine' = [play_routine EXCEPT ![s] = "finished"]

\* client.py 151-156: both except branches only log; the function returns.
LoopRaised(s) ==
    /\ pc' = [pc EXCEPT ![s] = "failed"]
    /\ play_routine' = [play_routine EXCEPT ![s] = "finished"]
    /\ UNCHANGED play_finished

\* client.py 126: `for snapshot in response_iterator` yields the next snapshot.
Receive(s) ==
    /\ pc[s] = "next"
    /\ pos[s] < Len(stream)
    /\ pos' = [pos EXCEPT ![s] = @ + 1]
    /\ pc' = [pc EXCEPT ![s] = "got"]
    /\ UNCHANGED <<stream, orders, play_finished, play_routine, max_workers, number, raised,
                   waiter, stopped, stopPos, joins, events>>

\* client.py 126, 150: the server closes the stream, the for loop ends.
StreamEnds(s) ==
    /\ pc[s] = "next"
    /\ LoopExit(s)
    /\ UNCHANGED <<stream, pos, orders, max_workers, number, raised, waiter, stopped, stopPos,
                   joins, events>>

\* client.py 126, 151-153: the iterator raises grpc.RpcError (a rejected join,
\* a lost connection).
StreamFails(s) ==
    /\ pc[s] = "next"
    /\ LoopRaised(s)
    /\ UNCHANGED <<stream, pos, orders, max_workers, number, raised, waiter, stopped, stopPos,
                   joins, events>>

\* client.py 127-130
Over(s) ==
    /\ pc[s] = "got"
    /\ Snapshot(s).state = "OVER"
    /\ LoopExit(s)
    /\ UNCHANGED <<stream, pos, orders, max_workers, number, raised, waiter, stopped, stopPos,
                   joins, events>>

\* client.py 131: elif self._play_finished.is_set()
StopSeenNever(s) == FALSE
StopSeen(s) == play_finished[s]

\* client.py 131-132
Cancelled(s) ==
    /\ pc[s] = "got"
    /\ Snapshot(s).state # "OVER"
    /\ StopSeen(s)
    /\ LoopExit(s)
    /\ UNCHANGED <<stream, pos, orders, max_workers, number, raised, waiter, stopped, stopPos,
                   joins, events>>

\* client.py 133-140: the OrderSet is built and the processor called.
Listening(s) ==
    /\ pc[s] = "got"
    /\ Snapshot(s).state # "OVER"
    /\ ~StopSeen(s)
    /\ IsListening(Snapshot(s).state)
    /\ \E out \in HandlerOutcomes(s) :
          /\ orders' = [orders EXCEPT
                           ![s] = ProcessorResult(out, NewOrders(Snapshot(s).turn))]
          /\ events' = [events EXCEPT
                           ![s] = Append(@, Event("handler", s, Snapshot(s).turn, out))]
          /\ IF AfterHandler(out) = "send"
             THEN pc' = [pc EXCEPT ![s] = "send"] /\ UNCHANGED play_routine
             ELSE LoopRaised(s)
    /\ UNCHANGED <<stream, pos, play_finished, max_workers, number, raised, waiter, stopped,
                   stopPos, joins>>

\* client.py 142-146: SendOrders (which returns or raises grpc.RpcError), or
\* the "did not return orders" line.
Send(s) ==
    /\ pc[s] = "send"
    /\ IF Truthy(orders[s])
       THEN \E result \in {"returned", "RpcError"} :
               /\ events' = [events EXCEPT
                     ![s] = Append(@, Event("send", s, orders[s].turn, result))]
               /\ IF result = "returned"
                  THEN pc' = [pc EXCEPT ![s] = "next"] /\ UNCHANGED play_routine
                  ELSE LoopRaised(s)
       ELSE /\ events' = [events EXCEPT
                             ![s] = Append(@, Event("noorders", s, Snapshot(s).turn, ""))]
            /\ pc' = [pc EXCEPT ![s] = "next"]
            /\ UNCHANGED play_routine
    /\ orders' = [orders EXCEPT ![s] = PyNone]
    /\ UNCHANGED <<stream, pos, play_finished, max_workers, number, raised, waiter, stopped,
                   stopPos, joins>>

\* client.py 27, 47-51, 60: the ready handler is a no-op unless replaced
\* (play_as_bot installs bot.getting_ready, which may raise).
ReadyOutcomes(s) == IF s = Main THEN {"ok", "raise"} ELSE {"ok"}

\* client.py 147-148, 154-156
GetReady(s) ==
    /\ pc[s] = "got"
    /\ Snapshot(s).state = "GET_READY"
    /\ ~StopSeen(s)
    /\ ~IsListening(Snapshot(s).state)
    /\ \E out \in ReadyOutcomes(s) :
          /\ events' = [events EXCEPT
                           ![s] = Append(@, Event("ready", s, Snapshot(s).turn, out))]
          /\ IF out = "ok"
             THEN pc' = [pc EXCEPT ![s] = "next"] /\ UNCHANGED play_routine
             ELSE LoopRaised(s)
    /\ UNCHANGED <<stream, pos, orders, play_finished, max_workers, number, raised, waiter,
                   stopped, stopPos, joins>>

\* client.py 126-148: no branch matches, the loop takes the next snapshot.
Skip(s) ==
    /\ pc[s] = "got"
    /\ Snapshot(s).state \notin {"OVER", "LISTENING", "GET_READY"}
    /\ ~StopSeen(s)
    /\ pc' = [pc EXCEPT ![s] = "next"]
    /\ UNCHANGED <<stream, pos, orders, play_finished, play_routine,
                   max_workers, number, raised, waiter, stopped, stopPos, joins, events>>

\* ------------------------------------------------------------ play_as_bot
\* client.py 66: the processor tells jersey number 1 from every other number.
JerseyNumbers == {1, 2}

\* interface.py PLAYER_STATE, as client.py 70-76 names its values.
Roles == {"DISPUTING_THE_BALL", "DEFENDING", "SUPPORTING", "HOLDING_THE_BALL"}

\* What a snapshot says of the ball: held by nobody, by a player of the
\* session's own team (by number) or by a player of the other team.
Holders ==
    {[team |-> "none", number |-> 0], [team |-> "rival", number |-> 1]}
       \cup {[team |-> "own", number |-> n] : n \in JerseyNumbers}

\* snapshot.define_state(snapshot, number, side): the role of the player in
\* this snapshot, one role for each snapshot and player, nothing remembered.
DefineState(snapshot, n) ==
    IF snapshot.holder.team = "none" THEN "DISPUTING_THE_BALL"
    ELSE IF snapshot.holder.team = "rival" THEN "DEFENDING"
    ELSE IF snapshot.holder.number = n THEN "HOLDING_THE_BALL"
    ELSE "SUPPORTING"

\* client.py 66-77: the bot method the processor calls; no branch of the
\* if/elif chain matches a player_state that is none of the four.
DispatchByRoleOnly(n, player_state) ==
    CASE player_state = "DISPUTING_THE_BALL" -> "on_disputing"
      [] player_state = "DEFENDING" -> "on_defending"
      [] player_state = "SUPPORTING" -> "on_supporting"
      [] player_state = "HOLDING_THE_BALL" -> "on_holding"
      [] OTHER -> "no_handler"

Dispatch(n, player_state) ==
    IF n = 1 THEN "as_goalkeeper"
    ELSE CASE player_state = "DISPUTING_THE_BALL" -> "on_disputing"
           [] player_state = "DEFENDING" -> "on_defending"
           [] player_state = "SUPPORTING" -> "on_supporting"
           [] player_state = "HOLDING_THE_BALL" -> "on_holding"
           [] OTHER -> "no_handler"

\* The methods of a Bot that play_as_bot's processor can call.
BotHandlers ==
    {"as_goalkeeper", "on_disputing", "on_defending", "on_supporting", "on_holding"}

\* client.py 63-78 as the history records it: the call of define_state
\* (line 64, before the jersey number is looked at), then the call of the
\* bot method, if a branch matched.
ProcessorCalls(s, out) ==
    LET player_state == DefineState(Snapshot(s), number[s])
        handler == Dispatch(number[s], player_state)
        classified == Event("define_state", s, Snapshot(s).turn, player_state)
    IN  IF handler \in BotHandlers
        THEN <<classified, Event(handler, s, Snapshot(s).turn, out)>>
        ELSE <<classified>>

\* client.py 133-140 with play_as_bot's processor (63-78) as the processor.
BotListening(s) ==
    /\ pc[s] = "got"
    /\ Snapshot(s).state # "OVER"
    /\ ~StopSeen(s)
    /\ IsListening(Snapshot(s).state)
    /\ \E out \in Outcomes :
          /\ orders' = [orders EXCEPT
                           ![s] = ProcessorResult(out, NewOrders(Snapshot(s).turn))]
          /\ events' = [events EXCEPT ![s] = @ \o ProcessorCalls(s, out)]
          /\ IF AfterHandler(out) = "send"
             THEN pc' = [pc EXCEPT ![s] = "send"] /\ UNCHANGED play_routine
             ELSE LoopRaised(s)
    /\ UNCHANGED <<stream, pos, play_finished, max_workers, number, raised,
                   waiter, stopped, stopPos, joins>>

\* client.py 105, 126, 151-153: the server answers the join request with
\* INVALID_ARGUMENT; the iterator raises before it yields a snapshot and the
\* loop logs "did not connect".
JoinRejected(s) ==
    /\ pc[s] = "next"
    /\ pos[s] = 0
    /\ events' = [events EXCEPT ![s] = Append(@, Event("did not connect", s, 0, ""))]
    /\ LoopRaised(s)
    /\ UNCHANGED <<stream, pos, orders, max_workers, number, raised, waiter,
                   stopped, stopPos, joins>>

\* The match as a bot sees it: the snapshot of each turn in order, LISTENING
\* with the ball somewhere, until the match is OVER.
BotServerSend ==
    /\ Len(stream) < MaxSnapshots
    /\ \/ \E h \in Holders :
             stream' = Append(stream, [state |-> "LISTENING",
                                       turn |-> Len(stream) + 1, holder |-> h])
       \/ stream' = Append(stream, [state |-> "OVER", turn |-> Len(stream) + 1,
                                    holder |-> [team |-> "none", number |-> 0]])
    /\ UNCHANGED <<pos, pc, orders, play_finished, play_routine, max_workers,
                   number, raised, waiter, stopped, stopPos, joins, events>>

\* A match in play, as the several-session program sees it: the snapshot of
\* each turn in order, LISTENING until the match is OVER.
MatchOver == stream # <<>> /\ stream[Len(stream)].state = "OVER"

PoolServerSend ==
    /\ Len(stream) < MaxTurn
    /\ ~MatchOver
    /\ \E st \in {"LISTENING", "OVER"} :
          stream' = Append(stream, [state |-> st, turn |-> Len(stream) + 1])
    /\ UNCHANGED <<pos, pc, orders, play_finished, play_routine, max_workers, number, raised,
                   waiter, stopped, stopPos, joins, events>>

\* ------------------------------------------------------------ stop, wait

\* client.py 110-115.  self._play_routine is None until _bot_start submits the
\* loop: None.cancel() raises AttributeError before the event is set.
\* Future.cancel() cancels a pending future and leaves any other as it is.
CancelNothing(routine) == routine
Cancel(routine) == IF routine = "pending" THEN "cancelled" ELSE routine

StopSharedEvent(s) ==
    /\ Len(stopped[s]) < MaxStops
    /\ play_routine[s] # "None"
    /\ stopped' = [stopped EXCEPT ![s] = Append(@, "returned")]
    /\ play_routine' = [play_routine EXCEPT ![s] = Cancel(@)]
    /\ pc' = [pc EXCEPT ![s] = IF Cancel(play_routine[s]) = "cancelled"
                                THEN "cancelled" ELSE @]
    /\ play_finished' = [t \in Sessions |-> TRUE]
    /\ stopPos' = [stopPos EXCEPT ![s] = IF play_finished[s] THEN @ ELSE pos[s]]
    /\ UNCHANGED <<stream, pos, orders, max_workers, number, raised, waiter,
                   joins, events>>

Stop(s) ==
    /\ Len(stopped[s]) < MaxStops
    /\ IF play_routine[s] = "None"
       THEN /\ stopped' = [stopped EXCEPT ![s] = Append(@, "AttributeError")]
            /\ UNCHANGED <<pc, play_routine, play_finished, stopPos>>
       ELSE /\ stopped' = [stopped EXCEPT ![s] = Append(@, "returned")]
            /\ play_routine' = [play_routine EXCEPT ![s] = Cancel(@)]
            /\ pc' = [pc EXCEPT ![s] = IF Cancel(play_routine[s]) = "cancelled"
                                        THEN "cancelled" ELSE @]
            /\ play_finished' = [play_finished EXCEPT ![s] = TRUE]
            /\ stopPos' = [stopPos EXCEPT
                              ![s] = IF play_finished[s] THEN @ ELSE pos[s]]
    /\ UNCHANGED <<stream, pos, orders, max_workers, number, raised, waiter, joins, events>>

\* example/rl/main.py 118-120: the signal handler stops a session once.
PoolStop(s) == stopped[s] = <<>> /\ Stop(s)

\* client.py 114: what a call of stop() comes to, by the _play_routine it finds.
StopOutcome(routine) == IF routine = "None" THEN "AttributeError" ELSE "returned"

\* helper_bots.py 74-75: `lugo_client.stop()` then `raise e`; the caller gets
\* e when the cleanup returned and the cleanup's own exception when it raised.
Propagated(cleanup) == IF cleanup = "returned" THEN "original" ELSE cleanup

\* helper_bots.py 51-75.  The try block fails at get_region (55-56), at the
\* LugoClient constructor (58-65) or in play (71, the connection timeout of
\* client.py 90-93), or it starts the session.  In the except branch the name
\* lugo_client is unbound after the first two, and bound to a client whose
\* _play_routine is None after the third.
NewCustomHelperPlayer(s) ==
    /\ pc[s] = "new"
    /\ \E failure \in {"get_region", "LugoClient", "play", "none"} :
          IF failure \in {"get_region", "LugoClient"}
          THEN /\ pc' = [pc EXCEPT ![s] = "unbound"]
               /\ raised' = [raised EXCEPT ![s] = Propagated("UnboundLocalError")]
               /\ UNCHANGED <<play_routine, joins, stopped>>
          ELSE IF failure = "play"
          THEN /\ pc' = [pc EXCEPT ![s] = "refused"]
               /\ stopped' = [stopped EXCEPT
                                 ![s] = Append(@, StopOutcome(play_routine[s]))]
               /\ raised' = [raised EXCEPT
                                ![s] = Propagated(StopOutcome(play_routine[s]))]
               /\ UNCHANGED <<play_routine, joins>>
          ELSE /\ joins' = [joins EXCEPT ![s] = @ + 1]
               /\ play_routine' = [play_routine EXCEPT ![s] = "pending"]
               /\ pc' = [pc EXCEPT ![s] = "queued"]
               /\ UNCHANGED <<raised, stopped>>
    /\ UNCHANGED <<stream, pos, orders, play_finished, max_workers, number,
                   waiter, stopPos, events>>

\* client.py 117-118: self._play_finished.wait(timeout=None)
Wait(s) ==
    /\ waiter[s] = "away"
    /\ waiter' = [waiter EXCEPT ![s] = "blocked"]
    /\ UNCHANGED <<stream, pos, pc, orders, play_finished, play_routine,
                   max_workers, number, raised, stopped, stopPos, joins, events>>

WaitReturnsUnset(s) ==
    /\ waiter[s] = "blocked"
    /\ waiter' = [waiter EXCEPT ![s] = "returned"]
    /\ UNCHANGED <<stream, pos, pc, orders, play_finished, play_routine,
                   max_workers, number, raised, stopped, stopPos, joins, events>>

WaitReturns(s) ==
    /\ waiter[s] = "blocked"
    /\ play_finished[s]
    /\ waiter' = [waiter EXCEPT ![s] = "returned"]
    /\ UNCHANGED <<stream, pos, pc, orders, play_finished, play_routine,
                   max_workers, number, raised, stopped, stopPos, joins, events>>

\* --------------------------------------------------------- specifications
\* example/simple/main.py: one session, the main thread in wait(), stop() from
\* the signal handler.
Next ==
    \/ ServerSend
    \/ Play(Main)
    \/ WatcherStart(Main)
    \/ Receive(Main)
    \/ StreamEnds(Main)
    \/ StreamFails(Main)
    \/ Over(Main)
    \/ Cancelled(Main)
    \/ Listening(Main)
    \/ Send(Main)
    \/ GetReady(Main)
    \/ Skip(Main)
    \/ Stop(Main)
    \/ Wait(Main)
    \/ WaitReturns(Main)

Spec == Init /\ [][Next]_vars

\* example/rl/main.py with rl/helper_bots.py: the player's session and the
\* helper sessions on one ThreadPoolExecutor; nobody calls wait().  The match
\* in play sends LISTENING and OVER snapshots only, so the GET_READY branch
\* and the branchless phases are never taken here.
PoolNext ==
    \/ PoolServerSend
    \/ Play(Main)
    \/ NewCustomHelperPlayer(Helper)
    \/ \E s \in Sessions :
          \/ WatcherStart(s)
          \/ Receive(s)
          \/ StreamEnds(s)
          \/ StreamFails(s)
          \/ Over(s)
          \/ Cancelled(s)
          \/ Listening(s)
          \/ Send(s)
          \/ PoolStop(s)

PoolSpec == PoolInit /\ [][PoolNext]_vars

\* A worker thread that can take a step takes it: a running loop goes on
\* whenever it is not blocked on the iterator, and a pending future starts
\* when a worker is free.  Nothing makes the server send.
Thread(s) ==
    \/ WatcherStart(s)
    \/ Receive(s)
    \/ Over(s)
    \/ Cancelled(s)
    \/ Listening(s)
    \/ Send(s)

FairPoolSpec == PoolSpec /\ \A s \in Sessions : WF_vars(Thread(s))

\* example/simple/main.py with the bot's processor and the server's answer to
\* the join request in detail: the session of a bot of either kind of jersey
\* number, in a match that sends it the snapshot of each turn.  The main
\* thread's wait(), which acts on nothing here, is Spec's.
BotInit ==
    /\ Constructed
    /\ max_workers = Cardinality(Sessions)
    /\ \E n \in JerseyNumbers : number = [Roster EXCEPT ![Main] = n]

BotNext ==
    \/ BotServerSend
    \/ Play(Main)
    \/ WatcherStart(Main)
    \/ JoinRejected(Main)
    \/ Receive(Main)
    \/ StreamEnds(Main)
    \/ StreamFails(Main)
    \/ Over(Main)
    \/ Cancelled(Main)
    \/ BotListening(Main)
    \/ Send(Main)
    \/ Stop(Main)

BotSpec == BotInit /\ [][BotNext]_vars

\* ------------------------------------------------------------- histories
IsHandler(e) == e.ev = "handler"
IsSend(e) == e.ev = "send"

\* The SendOrders calls of a session, in order.
Sends(s) == SelectSeq(events[s], IsSend)

\* The indices of the LISTENING snapshots a session has taken from its iterator.
Heard(s) == {k \in 1..pos[s] : stream[k].state = "LISTENING"}

C2_HandlerRaiseKeepsLoopRunning ==
    \A s \in Sessions :
       /\ (/\ events[s] # <<>>
           /\ IsHandler(events[s][Len(events[s])])
           /\ Raises(events[s][Len(events[s])].out))
             => pc[s] = "send" /\ play_routine[s] = "running"
       /\ \A j \in Heard(s) :
             (/\ \E k \in DOMAIN events[s] :
                    IsHandler(events[s][k]) /\ Raises(events[s][k].out)
                                            /\ events[s][k].idx < j
              /\ stopPos[s] = -1
              /\ pos[s] > j \/ pc[s] # "got")
                => \E k \in DOMAIN events[s] :
                      IsHandler(events[s][k]) /\ events[s][k].idx = j

\* C2's case: the handler raised for the first snapshot and was called again
\* for the second.
C2_HandledSnapshotAfterRaise ==
    \E k, l \in DOMAIN events[Main] :
       /\ IsHandler(events[Main][k]) /\ Raises(events[Main][k].out)
       /\ events[Main][k].idx = 1
       /\ IsHandler(events[Main][l]) /\ events[Main][l].idx = 2

\* C3 as stated: when the handler raises for the LISTENING snapshot of turn T,
\* SendOrders is not called for that snapshot.
C3_NoSendWhenHandlerRaises ==
    \A s \in Sessions : \A k \in DOMAIN events[s] :
       (IsHandler(events[s][k]) /\ Raises(events[s][k].out))
          => \A i \in DOMAIN Sends(s) : Sends(s)[i].idx # events[s][k].idx

\* The last line of a session's history is the call of a handler that ended
\* with `out`, and the loop body stands before line 142.
HandlerJust(s, out) ==
    /\ pc[s] = "send"
    /\ events[s] # <<>>
    /\ IsHandler(events[s][Len(events[s])])
    /\ events[s][Len(events[s])].out = out

\* What line 142-146 adds to the history of s in this step.
Logged(s, kind) ==
    /\ Len(events'[s]) = Len(events[s]) + 1
    /\ events'[s][Len(events'[s])].ev = kind
    /\ events'[s][Len(events'[s])].idx = pos[s]

C5_NothingForSnapshotsTakenAfterStop ==
    \A s \in Sessions :
       stopPos[s] # -1 =>
          /\ \A k \in DOMAIN events[s] : events[s][k].idx <= stopPos[s]
          /\ pos[s] <= stopPos[s] + 1
          /\ pos[s] = stopPos[s] + 1 => pc[s] \in {"got", "done"}

\* C5's case: stop() set the event, the session then took a LISTENING snapshot
\* and left the loop there.
C5_ExitedAtSnapshotAfterStop ==
    /\ stopPos[Main] # -1
    /\ pos[Main] = stopPos[Main] + 1
    /\ stream[pos[Main]].state = "LISTENING"
    /\ pc[Main] = "done"

\* C6 as stated, for the end it reaches in finitely many steps: when the
\* receive loop has ended, for whatever reason, the completion event is set (so
\* that every caller of wait() returns).
C6_EndedLoopHasSetTheEvent ==
    \A s \in Sessions : pc[s] \in {"done", "failed"} => play_finished[s]

\* The LISTENING snapshots a session has taken carry strictly increasing turns.
HeardIncreasing(s) ==
    \A i, j \in Heard(s) : i < j => stream[i].turn < stream[j].turn

C8_OverEndsTheSession ==
    \A s \in Sessions : \A k \in 1..pos[s] :
       stream[k].state = "OVER" =>
          /\ k = pos[s]
          /\ pc[s] \in {"got", "done"}
          /\ pc[s] = "done" => play_finished[s]
          /\ \A e \in DOMAIN events[s] : events[s][e].idx # k
          /\ k = 1 => Sends(s) = <<>>

\* C8's case: OVER was the first message and the session has ended, although
\* the server sent more after it.
C8_EndedOnFirstMessageOver ==
    /\ pos[Main] = 1
    /\ stream[1].state = "OVER"
    /\ Len(stream) > 1
    /\ pc[Main] = "done"

\* C9 as stated: in any state of the session every call of stop() returns
\* without raising and leaves the event set, as a single call does.
C9_StopAlwaysReturnsAndSets ==
    \A s \in Sessions :
       stopped[s] # <<>> =>
          /\ \A k \in DOMAIN stopped[s] : stopped[s][k] = "returned"
          /\ play_finished[s]

\* Every session's event is set.
AllStopped == \A s \in Sessions : play_finished[s]

\* The loop of s has returned (or was cancelled before it ran): its worker is
\* free.
Exited(s) == pc[s] \in {"done", "failed", "cancelled"}

\* The loop of s is blocked in the iterator: the server has sent nothing that
\* s has not taken.
Blocked(s) == pc[s] = "next" /\ pos[s] = Len(stream)

\* C10 as stated: once the event is set for all sessions, every receive loop
\* eventually exits and no session calls SendOrders again.
C10_AllExitAndNoFurtherSend ==
    /\ AllStopped ~> (\A s \in Sessions : Exited(s))
    /\ [][AllStopped => \A s \in Sessions : Sends(s)' = Sends(s)]_vars

\* C10 as amended: once the event is set for all sessions, every receive loop
\* eventually has exited or is blocked waiting for the server's next message
\* (and a loop still pending was cancelled); a session calls SendOrders after
\* its event was set by stop() only for the snapshot it held at that moment.
C10_AllExitOrBlockAndOnlyInFlightSend ==
    /\ AllStopped ~> (\A s \in Sessions : Exited(s) \/ Blocked(s))
    /\ [](\A s \in Sessions :
             stopPos[s] # -1 =>
                \A i \in DOMAIN Sends(s) : Sends(s)[i].idx <= stopPos[s])

\* C10's case: both loops were running when both events were set, one of them
\* has sent the OrderSet it held and both have exited.
C10_BothStoppedMidLoopAndExited ==
    /\ \A s \in Sessions : stopPos[s] # -1 /\ pc[s] = "done" /\ pos[s] > stopPos[s]
    /\ \E s \in Sessions : \E i \in DOMAIN Sends(s) : Sends(s)[i].idx = stopPos[s]

\* The calls of a bot method that a session made for its k-th snapshot.
BotCalls(s, k) ==
    {i \in DOMAIN events[s] : events[s][i].ev \in BotHandlers /\ events[s][i].idx = k}

\* The processor was entered for the k-th snapshot of s.
Processed(s, k) ==
    \E i \in DOMAIN events[s] : events[s][i].ev = "define_state" /\ events[s][i].idx = k

\* The loop of s is past its k-th snapshot, which no stop() came before.
PastUnstopped(s, k) ==
    /\ k < pos[s] \/ pc[s] # "got"
    /\ stopPos[s] = -1 \/ Processed(s, k)

\* The handler the dispatch contract names for each role.
RoleHandler ==
    [r \in Roles |->
        IF r = "DISPUTING_THE_BALL" THEN "on_disputing"
        ELSE IF r = "DEFENDING" THEN "on_defending"
        ELSE IF r = "SUPPORTING" THEN "on_supporting"
        ELSE "on_holding"]

\* C11: in play_as_bot, for every LISTENING snapshot the session processes,
\* exactly one of the five bot handlers is invoked: as_goalkeeper for jersey
\* number 1, otherwise the handler of the role the snapshot classifies the
\* player into; the choice is a function of that snapshot and the session's
\* number alone.
C11_ExactlyOneHandlerByNumberThenRole ==
    \A s \in Sessions : \A k \in Heard(s) :
       PastUnstopped(s, k) =>
          /\ Cardinality(BotCalls(s, k)) = 1
          /\ \A i \in BotCalls(s, k) :
                events[s][i].ev =
                   IF number[s] = 1 THEN "as_goalkeeper"
                   ELSE RoleHandler[DefineState(stream[k], number[s])]

\* C11's case: a field player was classified differently in two snapshots and
\* a different role handler was invoked for each.
C11_TwoRolesTwoHandlers ==
    /\ number[Main] # 1
    /\ BotCalls(Main, 1) # {} /\ BotCalls(Main, 2) # {}
    /\ \A i \in BotCalls(Main, 1) : \A j \in BotCalls(Main, 2) :
          events[Main][i].ev # events[Main][j].ev

\* C12 as stated: a session whose jersey number is 1 has the goalkeeper handler
\* invoked for every LISTENING snapshot it processes, never goes through the
\* role classification and never has a role handler invoked.
C12_GoalkeeperBypassesClassification ==
    \A s \in Sessions :
       number[s] = 1 =>
          /\ \A k \in Heard(s) :
                (PastUnstopped(s, k) /\ stopPos[s] = -1) =>
                   \E i \in BotCalls(s, k) : events[s][i].ev = "as_goalkeeper"
          /\ \A i \in DOMAIN events[s] :
                events[s][i].ev \notin {"define_state", "on_disputing", "on_defending",
                                        "on_supporting", "on_holding"}

\* The server rejected the join request of s.
Rejected(s) == \E i \in DOMAIN events[s] : events[s][i].ev = "did not connect"

\* C13 as stated: for each start on_join is invoked exactly once, only after
\* the server acknowledged the join and never for a join the server rejects,
\* and before the turn handler is invoked for any snapshot.
C13_OnJoinOnceAndOnlyForAcceptedJoin ==
    \A s \in Sessions :
       /\ joins[s] <= 1
       /\ (play_routine[s] # "None" /\ ~Rejected(s)) => joins[s] = 1
       /\ BotCalls(s, pos[s]) # {} => joins[s] = 1
       /\ Rejected(s) => joins[s] = 0

\* C14 as stated, for a session whose event is not set: when the loop takes a
\* GET_READY snapshot the ready callback is invoked once, the turn handler is
\* not invoked, SendOrders is not called and the session goes on to the next
\* snapshot; a snapshot of a phase the loop has no branch for changes nothing
\* and the session goes on.
C14_ReadyCallbackThenNextSnapshot ==
    [][\A s \in Sessions :
          (pc[s] = "got" /\ ~play_finished[s] /\ pc'[s] # "got") =>
             /\ Snapshot(s).state = "GET_READY" =>
                   /\ Logged(s, "ready")
                   /\ orders'[s] = orders[s]
                   /\ pc'[s] = "next"
             /\ Snapshot(s).state \notin {"OVER", "LISTENING", "GET_READY"} =>
                   /\ events'[s] = events[s]
                   /\ orders'[s] = orders[s]
                   /\ play_finished'[s] = play_finished[s]
                   /\ pc'[s] = "next"]_vars

\* C15: when the channel is not ready within the timeout, the start raises to
\* its caller and the session never starts: no join request was made (lines
\* 105-107 were not reached: on_join not invoked, no loop submitted), no
\* snapshot is taken, nothing is ever sent, and nothing tries again.
C15_TimedOutStartNeverStarts ==
    /\ [](\A s \in Sessions :
             pc[s] = "refused" =>
                /\ joins[s] = 0
                /\ play_routine[s] = "None"
                /\ pos[s] = 0
                /\ events[s] = <<>>
                /\ ~play_finished[s])
    /\ [][\A s \in Sessions : pc[s] = "refused" => pc'[s] = "refused"]_vars

\* C15's case: the start timed out and the server has sent snapshots since.
C15_TimedOutWhileMatchRuns ==
    /\ pc[Main] = "refused"
    /\ Len(stream) > 1

\* What belongs to one session: its loop, its event, its future, its cursor
\* and its history.
Own(s) ==
    <<pc[s], play_finished[s], play_routine[s], pos[s], orders[s], events[s],
      stopped[s], stopPos[s]>>

\* C16: sessions on the shared pool are independent.  A step of one session (a
\* handler failure, a transport failure, a stop(), the end of its loop) leaves
\* everything of every other session as it was: its event, its loop, what it
\* has sent and what it is about to send; and a session's event is only ever
\* set by its own stop() or by the end of its own loop.
C16_SessionsDoNotTouchEachOther ==
    /\ [][\A s, t \in Sessions :
             (s # t /\ Own(s)' # Own(s)) => Own(t)' = Own(t)]_vars
    /\ [](\A s \in Sessions :
             play_finished[s] =>
                \/ pc[s] = "done"
                \/ \E k \in DOMAIN stopped[s] : stopped[s][k] = "returned")

\* C16's case: the player's loop ended on a failure at the first snapshot, its
\* stop() was called, and the helper went on to answer the second snapshot.
C16_HelperPlaysOnAfterPlayerFailed ==
    /\ pc[Main] = "failed" /\ pos[Main] = 1
    /\ stopped[Main] # <<>>
    /\ ~play_finished[Helper]
    /\ \E i \in DOMAIN Sends(Helper) : Sends(Helper)[i].idx = 2

\* C17 as stated: a roster started on a pool that cannot run all of its receive
\* loops at once is refused; there is never a started session whose loop is
\* queued while every worker of the pool is held by another session's loop
\* blocked on its iterator.
C17_NoLoopQueuedBehindBlockedLoops ==
    \A s \in Sessions :
       pc[s] = "queued" =>
          \/ Cardinality(Running) < max_workers
          \/ \E t \in Running : ~Blocked(t)

\* C18: on a session whose stop() was never called, wait() returns only when
\* the receive loop has exited, and the session invokes no handler and calls
\* SendOrders no more once wait() has returned.
C18_WaitReturnsAfterLoopExit ==
    /\ [](\A s \in Sessions :
             (stopped[s] = <<>> /\ waiter[s] = "returned") => pc[s] = "done")
    /\ [][\A s \in Sessions :
             (stopped'[s] = <<>> /\ waiter[s] = "returned")
                => events'[s] = events[s]]_vars

\* C18's case: nobody called stop(), the session answered a snapshot, its loop
\* ended and wait() returned.
C18_WaitReturnedAfterPlaying ==
    /\ stopped[Main] = <<>>
    /\ waiter[Main] = "returned"
    /\ Sends(Main) # <<>>

\* C19: a stop() that completes after the receive loop was submitted and before
\* a worker began to run it cancels the loop, which then never runs: the
\* session takes no snapshot, invokes no handler and sends nothing, whatever
\* the server delivers afterwards.
C19_StopWhileQueuedCancelsLoop ==
    /\ [][\A s \in Sessions :
             (pc[s] = "queued" /\ stopped'[s] # stopped[s])
                => (pc'[s] = "cancelled" /\ play_routine'[s] = "cancelled")]_vars
    /\ [](\A s \in Sessions :
             pc[s] = "cancelled" => (pos[s] = 0 /\ events[s] = <<>>))
    /\ [][\A s \in Sessions : pc[s] = "cancelled" => pc'[s] = "cancelled"]_vars

\* C19's case: the loop was cancelled while it was queued and the server has
\* sent LISTENING snapshots since, which the session never took.
C19_CancelledWhileServerSends ==
    /\ pc[Main] = "cancelled"
    /\ Len(stream) > 1
    /\ \A k \in DOMAIN stream : stream[k].state = "LISTENING"

\* C20 as stated: when newCustomHelperPlayer fails at any step, it stops the
\* session it was creating and its caller receives the original failure, not
\* an error raised by the cleanup.
C20_CallerReceivesOriginalFailure ==
    \A s \in Sessions :
       raised[s] # "nothing" =>
          /\ raised[s] = "original"
          /\ pc[s] = "refused" =>
                (stopped[s] # <<>> /\ stopped[s][Len(stopped[s])] = "returned")

====
